---- MODULE Spec2Model ----
(***************************************************************************)
(* ServeMuxDynamic (runtime/mux_dynamic.go): a request multiplexer whose   *)
(* table of (method -> ordered bindings) is mutated by Handle and          *)
(* HandlerDeregister under the exclusive side of a sync.RWMutex while      *)
(* ServeHTTP scans it under the shared side.                               *)
(*                                                                         *)
(* Strings that the code slices (paths, components, verbs) are sequences   *)
(* of one-character strings; methods and handler names are atoms.          *)
(***************************************************************************)
EXTENDS Integers, Sequences, FiniteSets, TLC

\* ------------------------------------------------------------------ bounds

\* Caps on the number of bindings in the whole table (guards of Handle):
\* in Spec, where every step of every call interleaves,
MaxConc == 2

\* in SpecServe, where the steps of ServeHTTP interleave with whole calls of
\* Handle and HandlerDeregister,
MaxBindings == 2

\* in SpecTable, where Handle and HandlerDeregister are called in turn,
MaxLen == 3

\* and in SpecVerb, where the patterns have the verbs "v:1" and "1".
MaxVerb == 2

\* ------------------------------------------------------------ input domains

None == "none"

Methods == {"GET", "POST"}

HandlerFuncs == {"h1", "h2"}

\* The handler functions registered in Spec.
ConcHandlerFuncs == {"h1"}

Writers == {"w1"}

\* The goroutines that call ServeHTTP; all but SpecLive run one of them.
Dispatchers == {"d1", "d2"}

OneDispatcher == {"d1"}

\* The verb literal "v:1" (a verb that itself contains a colon).
VerbV == <<"v", ":", "1">>

NoVerb == <<>>

\* A path template segment that matches any one component.
Wild == <<"*">>

\* The patterns handed to Handle / HandlerDeregister: /*, /b:v:1, /a:v:1
PatWild == [segs |-> <<Wild>>, verb |-> NoVerb]
PatBV == [segs |-> << <<"b">> >>, verb |-> VerbV]
PatAV == [segs |-> << <<"a">> >>, verb |-> VerbV]

Patterns == {PatWild, PatBV, PatAV}

\* /b:1, a pattern whose verb is a suffix of the verb "v:1".
PatB1 == [segs |-> << <<"b">> >>, verb |-> <<"1">>]

\* The patterns handed to Handle / HandlerDeregister in SpecVerb.
VerbPatterns == {PatAV, PatB1}

\* Request paths: "/a", "/a:v:1", "/:v:1" and "a" (no leading slash).
PathA == <<"/", "a">>
PathAV == <<"/", "a", ":", "v", ":", "1">>
PathColonV == <<"/", ":", "v", ":", "1">>
PathBad == <<"a">>

Paths == {PathA, PathAV, PathColonV, PathBad}

\* Values of the X-HTTP-Method-Override header ("" is: header absent).
Overrides == {"", "get", "post"}

\* Inbound requests.  plf is the value isPathLengthFallback(r) has for the
\* request, formOk whether r.ParseForm() succeeds on it.
Requests ==
    { [Method |-> m, Path |-> p, plf |-> f, formOk |-> k] :
        m \in Methods, p \in Paths, f \in BOOLEAN, k \in BOOLEAN }

\* The requests and header values served in Spec.
ConcRequests ==
    { q \in Requests : q.Path \in {PathA, PathAV, PathColonV} /\ q.formOk }

ConcOverrides == {""}

\* The requests served in SpecLive: "/a" with either method.
LiveRequests ==
    { q \in Requests : q.Path = PathA /\ ~q.plf /\ q.formOk }

\* The requests served in SpecVerb: "/a:v:1" with either method.
VerbRequests == { q \in Requests : q.Path = PathAV /\ q.formOk }

Bindings == { [pat |-> p, h |-> h] : p \in Patterns, h \in HandlerFuncs }

\* ------------------------------------------------------------------ strings

\* strings.HasPrefix
HasPrefix(s, pre) ==
    /\ Len(pre) <= Len(s)
    /\ SubSeq(s, 1, Len(pre)) = pre

\* strings.HasSuffix
HasSuffix(s, suf) ==
    /\ Len(suf) <= Len(s)
    /\ SubSeq(s, Len(s) - Len(suf) + 1, Len(s)) = suf

\* Index (1-based) of the first sep in s, 0 when there is none.
RECURSIVE IndexFrom(_, _, _)
IndexFrom(s, sep, i) ==
    IF i > Len(s) THEN 0
    ELSE IF s[i] = sep THEN i
    ELSE IndexFrom(s, sep, i + 1)

\* strings.Split(s, sep) for a one-character separator.
RECURSIVE Split(_, _)
Split(s, sep) ==
    LET i == IndexFrom(s, sep, 1)
    IN  IF i = 0 THEN << s >>
        ELSE << SubSeq(s, 1, i - 1) >> \o Split(SubSeq(s, i + 1, Len(s)), sep)

\* strings.Join(ss, sep)
RECURSIVE Join(_, _)
Join(ss, sep) ==
    IF ss = << >> THEN << >>
    ELSE IF Len(ss) = 1 THEN ss[1]
    ELSE ss[1] \o sep \o Join(Tail(ss), sep)

\* Line 63 without strings.ToUpper: the header value is used as it came.
ToUpperNone(s) == s

\* strings.ToUpper on the header values in use.
ToUpper(s) ==
    CASE s = "get" -> "GET"
      [] s = "post" -> "POST"
      [] OTHER -> s

\* ----------------------------------------------------------------- Pattern

\* Pattern.Verb()
Verb(p) == p.verb

\* Pattern.String(): "/" + segments joined by "/" (+ ":" + verb).
String(p) ==
    <<"/">> \o Join(p.segs, <<"/">>)
            \o (IF p.verb # NoVerb THEN <<":">> \o p.verb ELSE << >>)

\* Pattern.Match(components, verb): err == nil iff the verb is the
\* pattern's and every segment is the wildcard or equals its component.
Match(p, components, verb) ==
    /\ verb = p.verb
    /\ Len(components) = Len(p.segs)
    /\ \A i \in 1..Len(p.segs) :
          p.segs[i] = Wild \/ p.segs[i] = components[i]

\* ------------------------------------------------------------------- state

VARIABLES
    handlers,     \* s.handlers: method -> sequence of [pat, h], keys made lazily
    muReaders,    \* s.mu: the dispatches holding the read lock
    muWriter,     \* s.mu: the writer inside Lock()..Unlock(), or None
    muHeld,       \* s.mu: TRUE once that writer holds the lock exclusively
    wpc,          \* per writer: "idle", "lock" (waiting in Lock) or "held"
    wop,          \* per writer: the arguments of the call it is in
    lastCall,     \* SpecTable: the call that returned last, the table before it
    regs,         \* per (method, pattern string): Handle calls since the last
                  \* HandlerDeregister of it
    pc,           \* per dispatch: position in ServeHTTP
    r,            \* per dispatch: the request (r.Method is overwritten)
    override,     \* per dispatch: the X-HTTP-Method-Override header (line 62)
    components,   \* per dispatch: local components
    verb,         \* per dispatch: local verb
    visited,      \* per dispatch: methods the fallback range has passed
    sel,          \* per dispatch: << >> or <<[meth, b]>>, the binding whose
                  \* Match succeeded and the method it is registered under
    outcome,      \* per dispatch: what the call produced
    snap          \* per dispatch: << >> or <<table at RLock>> while it scans

vars == << handlers, muReaders, muWriter, muHeld, wpc, wop, lastCall, regs,
           pc, r, override, components, verb, visited, sel, outcome, snap >>

wvars == << wpc, wop, lastCall, regs >>

dvars == << pc, r, override, components, verb, visited, sel, outcome, snap >>

muvars == << muReaders, muWriter, muHeld >>

\* ------------------------------------------------------------------- table

\* NewServeMuxDynamic: an empty map.
EmptyTable == [m \in {} |-> << >>]

\* s.handlers[meth]: the nil slice for a missing key.
Get(t, meth) == IF meth \in DOMAIN t THEN t[meth] ELSE << >>

\* s.handlers[meth] = v
Put(t, meth, v) ==
    [x \in (DOMAIN t) \cup {meth} |-> IF x = meth THEN v ELSE t[x]]

RECURSIVE SumLen(_, _)
SumLen(t, ms) ==
    IF ms = {} THEN 0
    ELSE LET m == CHOOSE x \in ms : TRUE
         IN  Len(t[m]) + SumLen(t, ms \ {m})

\* Number of bindings in the table.
TotalLen(t) == SumLen(t, DOMAIN t)

\* Handle that replaces the bindings of the same pattern string (the variant
\* of mux_dynamic_test.go, lines 146-164).
HandleResultReplace(t, meth, pat, h) ==
    Put(t, meth,
        SelectSeq(Get(t, meth), LAMBDA b : String(b.pat) # String(pat))
            \o << [pat |-> pat, h |-> h] >>)

\* Handle with line 23 as append(s.handlers[meth], handler{...}): the new
\* binding goes last.
HandleResultAppend(t, meth, pat, h) ==
    Put(t, meth, Get(t, meth) \o << [pat |-> pat, h |-> h] >>)

\* Handle, line 23: prepend.
HandleResult(t, meth, pat, h) ==
    Put(t, meth, << [pat |-> pat, h |-> h] >> \o Get(t, meth))

\* DeregLoop with line 41 as offset = idx: the matched binding is copied with
\* the next span.
RECURSIVE DeregLoopKeepMatched(_, _, _, _, _)
DeregLoopKeepMatched(hs, idx, offset, newHandlers, pat) ==
    IF idx >= Len(hs)
    THEN newHandlers \o SubSeq(hs, offset + 1, Len(hs))
    ELSE IF String(hs[idx + 1].pat) = String(pat)
         THEN DeregLoopKeepMatched(hs, idx + 1, idx,
                        newHandlers \o SubSeq(hs, offset + 1, idx), pat)
         ELSE DeregLoopKeepMatched(hs, idx + 1, offset, newHandlers, pat)

\* DeregLoop leaving the loop at the first match.
RECURSIVE DeregLoopFirstOnly(_, _, _, _, _)
DeregLoopFirstOnly(hs, idx, offset, newHandlers, pat) ==
    IF idx >= Len(hs)
    THEN newHandlers \o SubSeq(hs, offset + 1, Len(hs))
    ELSE IF String(hs[idx + 1].pat) = String(pat)
         THEN newHandlers \o SubSeq(hs, offset + 1, idx)
                          \o SubSeq(hs, idx + 2, Len(hs))
         ELSE DeregLoopFirstOnly(hs, idx + 1, offset, newHandlers, pat)

\* HandlerDeregister, lines 36-44: idx and offset are 0-based as in the code,
\* hs[offset:idx] is SubSeq(hs, offset + 1, idx).
RECURSIVE DeregLoop(_, _, _, _, _)
DeregLoop(hs, idx, offset, newHandlers, pat) ==
    IF idx >= Len(hs)
    THEN newHandlers \o SubSeq(hs, offset + 1, Len(hs))
    ELSE IF String(hs[idx + 1].pat) = String(pat)
         THEN DeregLoop(hs, idx + 1, idx + 1,
                        newHandlers \o SubSeq(hs, offset + 1, idx), pat)
         ELSE DeregLoop(hs, idx + 1, offset, newHandlers, pat)

\* HandlerDeregister without line 46: the rebuilt slice is not stored.
HandlerDeregisterResultNotStored(t, meth, pat) == t

\* HandlerDeregister without lines 32-34: the rebuilt slice is stored also
\* for a method that has no bindings.
HandlerDeregisterResultNoReturn(t, meth, pat) ==
    Put(t, meth, DeregLoop(Get(t, meth), 0, 0, << >>, pat))

\* HandlerDeregister, lines 31-46.
HandlerDeregisterResult(t, meth, pat) ==
    LET hs == Get(t, meth)
    IN  IF Len(hs) = 0 THEN t
        ELSE Put(t, meth, DeregLoop(hs, 0, 0, << >>, pat))

\* Handle of mux_dynamic_test.go, lines 149-156: the loop; idx and offset are
\* 0-based as in the code.
RECURSIVE HandleVariantLoop(_, _, _, _, _)
HandleVariantLoop(hs, idx, offset, newHandlers, pat) ==
    IF idx >= Len(hs)
    THEN [offset |-> offset, newHandlers |-> newHandlers]
    ELSE IF String(hs[idx + 1].pat) = String(pat)
         THEN HandleVariantLoop(hs, idx + 1, idx + 1,
                        newHandlers \o SubSeq(hs, offset + 1, idx), pat)
         ELSE HandleVariantLoop(hs, idx + 1, offset, newHandlers, pat)

\* The variant taking the branch of line 159 whatever the loop found.
HandleVariantResultNoRemove(t, meth, pat, h) ==
    Put(t, meth, Get(t, meth) \o << [pat |-> pat, h |-> h] >>)

\* Handle of mux_dynamic_test.go, lines 146-164.
HandleVariantResult(t, meth, pat, h) ==
    LET hs == Get(t, meth)
        l == HandleVariantLoop(hs, 0, 0, << >>, pat)
    IN  IF l.offset = 0
        THEN Put(t, meth, hs \o << [pat |-> pat, h |-> h] >>)
        ELSE Put(t, meth,
                 (l.newHandlers \o SubSeq(hs, l.offset + 1, Len(hs)))
                     \o << [pat |-> pat, h |-> h] >>)

\* -------------------------------------------------------------- sync.RWMutex

\* Lock(), first half: take the writers' mutex and announce the writer, after
\* which RLock blocks.
CanLockBegin == muWriter = None

\* Lock() that does not wait for the readers.
CanLockAcquireNoWait(w) == muWriter = w /\ ~muHeld

\* Lock(), second half: the announced writer waits for the readers to leave.
CanLockAcquire(w) == muWriter = w /\ ~muHeld /\ muReaders = {}

\* RLock() that lets readers in while a writer waits for the readers to leave
\* (no preference for the writer).
CanRLockNoPreference == ~muHeld

\* RLock() that never blocks.
CanRLockAlways == TRUE

\* RLock(): blocks while a writer is announced or holds the lock.
CanRLock == muWriter = None

\* ----------------------------------------------------------------- writers

NoOp == [op |-> None, meth |-> None, pat |-> << >>, h |-> None]

HandleOp(meth, pat, h) ==
    [op |-> "Handle", meth |-> meth, pat |-> <<pat>>, h |-> h]

DeregOp(meth, pat) ==
    [op |-> "HandlerDeregister", meth |-> meth, pat |-> <<pat>>, h |-> None]

NoCall == [call |-> NoOp, before |-> EmptyTable, repeat |-> FALSE]

\* The key of regs for a method and a pattern.
RegKey(meth, pat) == << meth, String(pat) >>

RegKeys == { RegKey(m, p) : m \in Methods, p \in Patterns \cup VerbPatterns }

\* A call that returns after the same call of HandlerDeregister returned.
IsRepeat(meth, pat) ==
    /\ lastCall.call.op = "HandlerDeregister"
    /\ lastCall.call.meth = meth
    /\ String(lastCall.call.pat[1]) = String(pat)

\* Handle is called: line 20, s.mu.Lock() is entered.
HandleCall(w, meth, pat, h) ==
    /\ wpc[w] = "idle"
    /\ TotalLen(handlers) < MaxConc
    /\ CanLockBegin
    /\ muWriter' = w
    /\ wpc' = [wpc EXCEPT ![w] = "lock"]
    /\ wop' = [wop EXCEPT ![w] = HandleOp(meth, pat, h)]
    /\ UNCHANGED << handlers, muReaders, muHeld, lastCall, regs, dvars >>

\* HandlerDeregister is called: line 28, s.mu.Lock() is entered.
HandlerDeregisterCall(w, meth, pat) ==
    /\ wpc[w] = "idle"
    /\ CanLockBegin
    /\ muWriter' = w
    /\ wpc' = [wpc EXCEPT ![w] = "lock"]
    /\ wop' = [wop EXCEPT ![w] = DeregOp(meth, pat)]
    /\ UNCHANGED << handlers, muReaders, muHeld, lastCall, regs, dvars >>

\* s.mu.Lock() returns (lines 20, 28).
LockAcquire(w) ==
    /\ wpc[w] = "lock"
    /\ CanLockAcquire(w)
    /\ muHeld' = TRUE
    /\ wpc' = [wpc EXCEPT ![w] = "held"]
    /\ UNCHANGED << handlers, muReaders, muWriter, wop, lastCall, regs, dvars >>

\* Handle without line 21: it returns with the lock held.
HandleBodyNoUnlock(w) ==
    /\ wpc[w] = "held"
    /\ wop[w].op = "Handle"
    /\ handlers' = HandleResult(handlers, wop[w].meth, wop[w].pat[1], wop[w].h)
    /\ wpc' = [wpc EXCEPT ![w] = "idle"]
    /\ wop' = [wop EXCEPT ![w] = NoOp]
    /\ regs' = [regs EXCEPT ![RegKey(wop[w].meth, wop[w].pat[1])] = @ + 1]
    /\ UNCHANGED << muvars, lastCall, dvars >>

\* Handle, lines 23-24: the assignment, then the deferred Unlock and return.
HandleBody(w) ==
    /\ wpc[w] = "held"
    /\ wop[w].op = "Handle"
    /\ handlers' = HandleResult(handlers, wop[w].meth, wop[w].pat[1], wop[w].h)
    /\ muWriter' = None
    /\ muHeld' = FALSE
    /\ wpc' = [wpc EXCEPT ![w] = "idle"]
    /\ wop' = [wop EXCEPT ![w] = NoOp]
    /\ regs' = [regs EXCEPT ![RegKey(wop[w].meth, wop[w].pat[1])] = @ + 1]
    /\ UNCHANGED << muReaders, lastCall, dvars >>

\* HandlerDeregister, lines 31-47: the rebuild, then the deferred Unlock and
\* return.
HandlerDeregisterBody(w) ==
    /\ wpc[w] = "held"
    /\ wop[w].op = "HandlerDeregister"
    /\ handlers' = HandlerDeregisterResult(handlers, wop[w].meth, wop[w].pat[1])
    /\ muWriter' = None
    /\ muHeld' = FALSE
    /\ wpc' = [wpc EXCEPT ![w] = "idle"]
    /\ wop' = [wop EXCEPT ![w] = NoOp]
    /\ regs' = [regs EXCEPT ![RegKey(wop[w].meth, wop[w].pat[1])] = 0]
    /\ UNCHANGED << muReaders, lastCall, dvars >>

\* Handle (lines 19-24) called when the lock is free and run to its return in
\* one step.  cap bounds the table; track says whether lastCall is kept.
HandleSeq(w, meth, pat, h, cap, track) ==
    /\ wpc[w] = "idle"
    /\ TotalLen(handlers) < cap
    /\ CanLockBegin /\ muReaders = {}
    /\ handlers' = HandleResult(handlers, meth, pat, h)
    /\ regs' = [regs EXCEPT ![RegKey(meth, pat)] = @ + 1]
    /\ lastCall' = IF track
                   THEN [call |-> HandleOp(meth, pat, h), before |-> handlers,
                         repeat |-> FALSE]
                   ELSE lastCall
    /\ UNCHANGED << muvars, wpc, wop, dvars >>

\* HandlerDeregister (lines 27-47) called when the lock is free and run to its
\* return in one step.
HandlerDeregisterSeq(w, meth, pat, track) ==
    /\ wpc[w] = "idle"
    /\ CanLockBegin /\ muReaders = {}
    /\ handlers' = HandlerDeregisterResult(handlers, meth, pat)
    /\ regs' = [regs EXCEPT ![RegKey(meth, pat)] = 0]
    /\ lastCall' = IF track
                   THEN [call |-> DeregOp(meth, pat), before |-> handlers,
                         repeat |-> IsRepeat(meth, pat)]
                   ELSE lastCall
    /\ UNCHANGED << muvars, wpc, wop, dvars >>

HandleVariantOp(meth, pat, h) ==
    [op |-> "HandleVariant", meth |-> meth, pat |-> <<pat>>, h |-> h]

\* Handle of mux_dynamic_test.go (lines 142-165) called when the lock is free
\* and run to its return in one step.  regs counts the calls of the Handle of
\* mux_dynamic.go only.
HandleVariantSeq(w, meth, pat, h) ==
    /\ wpc[w] = "idle"
    /\ CanLockBegin /\ muReaders = {}
    /\ handlers' = HandleVariantResult(handlers, meth, pat, h)
    /\ lastCall' = [call |-> HandleVariantOp(meth, pat, h), before |-> handlers,
                    repeat |-> FALSE]
    /\ UNCHANGED << muvars, wpc, wop, regs, dvars >>

\* ------------------------------------------------------------------ ServeHTTP

NoRequest ==
    [Method |-> None, Path |-> << >>, plf |-> FALSE, formOk |-> FALSE]

\* isPathLengthFallback(r)
isPathLengthFallback(req) == req.plf

\* r.ParseForm() returns nil
ParseFormOk(req) == req.formOk

\* Lines 85-91: the index of the colon before the pattern's verb in the last
\* component (0-based as in the code), -1 when the suffix is not there.
VerbIdx(pat, comps) ==
    LET patVerb == Verb(pat)
        lastComponent == comps[Len(comps)]
    IN  IF patVerb # NoVerb /\ HasSuffix(lastComponent, <<":">> \o patVerb)
        THEN Len(lastComponent) - Len(patVerb) - 1
        ELSE -1

\* Line 99: components[l-1] = lastComponent[:idx]
StripComponents(comps, idx) ==
    [comps EXCEPT ![Len(comps)] = SubSeq(comps[Len(comps)], 1, idx)]

\* Line 99: verb = lastComponent[idx+1:]
StripVerb(comps, idx) ==
    SubSeq(comps[Len(comps)], idx + 2, Len(comps[Len(comps)]))

\* The primary loop without the return of line 108: the loop goes on after the
\* handler of a matching candidate.
RECURSIVE PrimaryScanNoReturn(_, _, _, _)
PrimaryScanNoReturn(hs, i, comps, vb) ==
    IF i > Len(hs)
    THEN [kind |-> "none", comps |-> comps, verb |-> vb, b |-> << >>]
    ELSE LET idx == VerbIdx(hs[i].pat, comps)
             comps2 == IF idx > 0 THEN StripComponents(comps, idx) ELSE comps
             vb2 == IF idx > 0 THEN StripVerb(comps, idx) ELSE vb
         IN  IF idx = 0
             THEN [kind |-> "notfound", comps |-> comps, verb |-> vb,
                   b |-> << >>]
             ELSE IF Match(hs[i].pat, comps2, vb2)
             THEN [kind |-> "none", comps |-> comps2, verb |-> vb2,
                   b |-> << hs[i] >>]
             ELSE PrimaryScanNoReturn(hs, i + 1, comps2, vb2)

\* Lines 76-109: the primary loop over hs from its i-th binding, with the
\* locals components and verb as they stand.  kind is "notfound" (line 95),
\* "match" (line 106) or "none" (the loop ran out).
RECURSIVE PrimaryScan(_, _, _, _)
PrimaryScan(hs, i, comps, vb) ==
    IF i > Len(hs)
    THEN [kind |-> "none", comps |-> comps, verb |-> vb, b |-> << >>]
    ELSE LET idx == VerbIdx(hs[i].pat, comps)
             comps2 == IF idx > 0 THEN StripComponents(comps, idx) ELSE comps
             vb2 == IF idx > 0 THEN StripVerb(comps, idx) ELSE vb
         IN  IF idx = 0
             THEN [kind |-> "notfound", comps |-> comps, verb |-> vb,
                   b |-> << >>]
             ELSE IF Match(hs[i].pat, comps2, vb2)
             THEN [kind |-> "match", comps |-> comps2, verb |-> vb2,
                   b |-> << hs[i] >>]
             ELSE PrimaryScan(hs, i + 1, comps2, vb2)

\* Lines 117-121: the first binding of hs, from the i-th, that matches the
\* components and verb the primary loop left; << >> when none does.
RECURSIVE FallbackScan(_, _, _, _)
FallbackScan(hs, i, comps, vb) ==
    IF i > Len(hs) THEN << >>
    ELSE IF Match(hs[i].pat, comps, vb) THEN << hs[i] >>
    ELSE FallbackScan(hs, i + 1, comps, vb)

\* ServeHTTP without line 75.
RLockResultNone(readers, d) == readers

\* s.mu.RLock(), line 75
RLockResult(readers, d) == readers \cup {d}

\* ServeHTTP releasing the lock only after the handler (no RUnlock before it).
RUnlockResultNone(readers, d) == readers

\* s.mu.RUnlock(), lines 93, 106, 122, 140
RUnlockResult(readers, d) == readers \ {d}

\* The methods the range of line 113 has still to visit.
OtherMethods(d) == (DOMAIN handlers) \ (visited[d] \cup {r[d].Method})

\* ServeHTTP is called with a request and its override header.
ServeCall(d, req, hdr) ==
    /\ pc[d] = "idle"
    /\ pc' = [pc EXCEPT ![d] = "start"]
    /\ r' = [r EXCEPT ![d] = req]
    /\ override' = [override EXCEPT ![d] = hdr]
    /\ UNCHANGED << handlers, muvars, wvars, components, verb, visited, sel,
                    outcome, snap >>

\* Lines 53-73: path check, split, method override.  The local override
\* leaves scope at line 70.
ServePrelude(d) ==
    /\ pc[d] = "start"
    /\ override' = [override EXCEPT ![d] = ""]
    /\ IF ~HasPrefix(r[d].Path, <<"/">>)
       THEN /\ outcome' = [outcome EXCEPT ![d] = "BadRequest"]
            /\ pc' = [pc EXCEPT ![d] = "done"]
            /\ UNCHANGED << r, components >>
       ELSE IF override[d] # "" /\ isPathLengthFallback(r[d])
            THEN /\ r' = [r EXCEPT ![d].Method = ToUpper(override[d])]
                 /\ IF ParseFormOk(r[d])
                    THEN /\ pc' = [pc EXCEPT ![d] = "rlock"]
                         /\ components' = [components EXCEPT ![d] =
                                              Split(Tail(r[d].Path), "/")]
                         /\ UNCHANGED outcome
                    ELSE /\ outcome' = [outcome EXCEPT ![d] = "BadRequest"]
                         /\ pc' = [pc EXCEPT ![d] = "done"]
                         /\ UNCHANGED components
            ELSE /\ pc' = [pc EXCEPT ![d] = "rlock"]
                 /\ components' = [components EXCEPT ![d] =
                                      Split(Tail(r[d].Path), "/")]
                 /\ UNCHANGED << r, outcome >>
    /\ UNCHANGED << handlers, muvars, wvars, verb, visited, sel, snap >>

\* Line 75: s.mu.RLock() returns.
RLock(d) ==
    /\ pc[d] = "rlock"
    /\ CanRLock
    /\ muReaders' = RLockResult(muReaders, d)
    /\ pc' = [pc EXCEPT ![d] = "primary"]
    /\ snap' = [snap EXCEPT ![d] = << handlers >>]
    /\ UNCHANGED << handlers, muWriter, muHeld, wvars, r, override,
                    components, verb, visited, sel, outcome >>

\* Lines 76-109: the loop over s.handlers[r.Method].  components and verb are
\* not read again once the loop has returned, and are dropped then.
PrimaryLoop(d) ==
    /\ pc[d] = "primary"
    /\ LET res == PrimaryScan(Get(handlers, r[d].Method), 1,
                              components[d], verb[d])
       IN  /\ sel' = [sel EXCEPT ![d] =
                        IF res.b = << >> THEN << >>
                        ELSE << [meth |-> r[d].Method, b |-> res.b[1]] >>]
           /\ CASE res.kind = "notfound" ->
                     /\ muReaders' = RUnlockResult(muReaders, d)
                     /\ outcome' = [outcome EXCEPT ![d] = "NotFound"]
                     /\ pc' = [pc EXCEPT ![d] = "done"]
                     /\ snap' = [snap EXCEPT ![d] = << >>]
                     /\ components' = [components EXCEPT ![d] = << >>]
                     /\ verb' = [verb EXCEPT ![d] = NoVerb]
                [] res.kind = "match" ->
                     /\ muReaders' = RUnlockResult(muReaders, d)
                     /\ pc' = [pc EXCEPT ![d] = "invoke"]
                     /\ snap' = [snap EXCEPT ![d] = << >>]
                     /\ components' = [components EXCEPT ![d] = << >>]
                     /\ verb' = [verb EXCEPT ![d] = NoVerb]
                     /\ UNCHANGED outcome
                [] OTHER ->
                     /\ pc' = [pc EXCEPT ![d] = "fallback"]
                     /\ components' = [components EXCEPT ![d] = res.comps]
                     /\ verb' = [verb EXCEPT ![d] = res.verb]
                     /\ UNCHANGED << muReaders, outcome, snap >>
    /\ UNCHANGED << handlers, muWriter, muHeld, wvars, r, override, visited >>

\* Lines 113-138: the range of the map reaches method m.  The locals of the
\* scan are dropped when it ends.
FallbackLoop(d, m) ==
    /\ pc[d] = "fallback"
    /\ m \in OtherMethods(d)
    /\ LET b == FallbackScan(handlers[m], 1, components[d], verb[d])
       IN  IF b = << >>
           THEN /\ visited' = [visited EXCEPT ![d] = @ \cup {m}]
                /\ UNCHANGED << muReaders, pc, sel, outcome, snap,
                                components, verb >>
           ELSE /\ muReaders' = RUnlockResult(muReaders, d)
                /\ snap' = [snap EXCEPT ![d] = << >>]
                /\ sel' = [sel EXCEPT ![d] = << [meth |-> m, b |-> b[1]] >>]
                /\ visited' = [visited EXCEPT ![d] = {}]
                /\ components' = [components EXCEPT ![d] = << >>]
                /\ verb' = [verb EXCEPT ![d] = NoVerb]
                /\ IF isPathLengthFallback(r[d])
                   THEN IF ParseFormOk(r[d])
                        THEN /\ pc' = [pc EXCEPT ![d] = "invoke"]
                             /\ UNCHANGED outcome
                        ELSE /\ outcome' =
                                  [outcome EXCEPT ![d] = "BadRequest"]
                             /\ pc' = [pc EXCEPT ![d] = "done"]
                   ELSE /\ outcome' =
                             [outcome EXCEPT ![d] = "MethodNotAllowed"]
                        /\ pc' = [pc EXCEPT ![d] = "done"]
    /\ UNCHANGED << handlers, muWriter, muHeld, wvars, r, override >>

\* Lines 139-144: the range is over and nothing matched.
FallbackEnd(d) ==
    /\ pc[d] = "fallback"
    /\ OtherMethods(d) = {}
    /\ muReaders' = RUnlockResult(muReaders, d)
    /\ snap' = [snap EXCEPT ![d] = << >>]
    /\ outcome' = [outcome EXCEPT ![d] = "NotFound"]
    /\ pc' = [pc EXCEPT ![d] = "done"]
    /\ visited' = [visited EXCEPT ![d] = {}]
    /\ components' = [components EXCEPT ![d] = << >>]
    /\ verb' = [verb EXCEPT ![d] = NoVerb]
    /\ UNCHANGED << handlers, muWriter, muHeld, wvars, r, override, sel >>

\* Lines 107, 132: h.h(w, r, pathParams) is entered.
InvokeHandler(d) ==
    /\ pc[d] = "invoke"
    /\ pc' = [pc EXCEPT ![d] = "handler"]
    /\ outcome' = [outcome EXCEPT ![d] = "handler"]
    /\ UNCHANGED << handlers, muvars, wvars, r, override, components, verb,
                    visited, sel, snap >>

\* Lines 108, 133: the handler returns (it may never do so).
HandlerReturn(d) ==
    /\ pc[d] = "handler"
    /\ pc' = [pc EXCEPT ![d] = "done"]
    /\ UNCHANGED << handlers, muvars, wvars, r, override, components, verb,
                    visited, sel, outcome, snap >>

\* ServeHTTP returns: its locals are gone.
ServeReturn(d) ==
    /\ pc[d] = "done"
    /\ pc' = [pc EXCEPT ![d] = "idle"]
    /\ r' = [r EXCEPT ![d] = NoRequest]
    /\ components' = [components EXCEPT ![d] = << >>]
    /\ verb' = [verb EXCEPT ![d] = NoVerb]
    /\ visited' = [visited EXCEPT ![d] = {}]
    /\ sel' = [sel EXCEPT ![d] = << >>]
    /\ outcome' = [outcome EXCEPT ![d] = None]
    /\ UNCHANGED << handlers, muvars, wvars, override, snap >>

\* ------------------------------------------------------------ specifications

Init ==
    /\ handlers = EmptyTable
    /\ muReaders = {}
    /\ muWriter = None
    /\ muHeld = FALSE
    /\ wpc = [w \in Writers |-> "idle"]
    /\ wop = [w \in Writers |-> NoOp]
    /\ lastCall = NoCall
    /\ regs = [k \in RegKeys |-> 0]
    /\ pc = [d \in Dispatchers |-> "idle"]
    /\ r = [d \in Dispatchers |-> NoRequest]
    /\ override = [d \in Dispatchers |-> ""]
    /\ components = [d \in Dispatchers |-> << >>]
    /\ verb = [d \in Dispatchers |-> NoVerb]
    /\ visited = [d \in Dispatchers |-> {}]
    /\ sel = [d \in Dispatchers |-> << >>]
    /\ outcome = [d \in Dispatchers |-> None]
    /\ snap = [d \in Dispatchers |-> << >>]

\* The steps of Handle and HandlerDeregister.
WriterNext ==
    \E w \in Writers :
        \/ \E m \in Methods, p \in Patterns, h \in ConcHandlerFuncs :
              HandleCall(w, m, p, h)
        \/ \E m \in Methods, p \in Patterns : HandlerDeregisterCall(w, m, p)
        \/ LockAcquire(w)
        \/ HandleBody(w)
        \/ HandlerDeregisterBody(w)

\* The steps of ServeHTTP, called by the goroutines ds with the requests reqs
\* and headers hdrs.
DispatchNext(ds, reqs, hdrs) ==
    \E d \in ds :
        \/ \E req \in reqs, hdr \in hdrs : ServeCall(d, req, hdr)
        \/ ServePrelude(d)
        \/ RLock(d)
        \/ PrimaryLoop(d)
        \/ \E m \in Methods : FallbackLoop(d, m)
        \/ FallbackEnd(d)
        \/ InvokeHandler(d)
        \/ HandlerReturn(d)
        \/ ServeReturn(d)

Next == WriterNext \/ DispatchNext(OneDispatcher, ConcRequests, ConcOverrides)

\* Concurrent calls of Handle, HandlerDeregister and ServeHTTP on a new mux,
\* every step of every call interleaved.
Spec == Init /\ [][Next]_vars

NextServe ==
    \/ \E w \in Writers, m \in Methods, p \in Patterns, h \in HandlerFuncs :
          HandleSeq(w, m, p, h, MaxBindings, FALSE)
    \/ \E w \in Writers, m \in Methods, p \in Patterns :
          HandlerDeregisterSeq(w, m, p, FALSE)
    \/ DispatchNext(OneDispatcher, Requests, Overrides)

\* ServeHTTP on a new mux, its steps interleaved with whole calls of Handle
\* and HandlerDeregister.
SpecServe == Init /\ [][NextServe]_vars

NextTable ==
    \/ \E w \in Writers, m \in Methods, p \in Patterns, h \in HandlerFuncs :
          HandleSeq(w, m, p, h, MaxLen, TRUE)
    \/ \E w \in Writers, m \in Methods, p \in Patterns :
          HandlerDeregisterSeq(w, m, p, TRUE)

\* Handle and HandlerDeregister called one after the other on a new mux.
SpecTable == Init /\ [][NextTable]_vars

NextVerb ==
    \/ \E w \in Writers, m \in Methods, p \in VerbPatterns, h \in HandlerFuncs :
          HandleSeq(w, m, p, h, MaxVerb, FALSE)
    \/ \E w \in Writers, m \in Methods, p \in VerbPatterns :
          HandlerDeregisterSeq(w, m, p, FALSE)
    \/ DispatchNext(OneDispatcher, VerbRequests, ConcOverrides)

\* As SpecServe, for the patterns /a:v:1 and /b:1 and requests of "/a:v:1".
SpecVerb == Init /\ [][NextVerb]_vars

NextVariant ==
    \/ \E w \in Writers, m \in Methods, p \in Patterns, h \in HandlerFuncs :
          HandleVariantSeq(w, m, p, h)
    \/ \E w \in Writers, m \in Methods, p \in Patterns :
          HandlerDeregisterSeq(w, m, p, TRUE)

\* The Handle and HandlerDeregister of mux_dynamic_test.go (lines 142-187)
\* called one after the other on a new mux.
SpecVariant == Init /\ [][NextVariant]_vars

NextLock == WriterNext \/ DispatchNext(OneDispatcher, Requests, Overrides)

\* As Spec, with every request and header value.
SpecLock == Init /\ [][NextLock]_vars

\* The steps of Handle and HandlerDeregister in SpecLive: one pattern.
WriterLive ==
    \E w \in Writers :
        \/ \E m \in Methods : HandleCall(w, m, PatWild, "h1")
        \/ \E m \in Methods : HandlerDeregisterCall(w, m, PatWild)
        \/ LockAcquire(w)
        \/ HandleBody(w)
        \/ HandlerDeregisterBody(w)

\* One pass of the fallback range, or its end.
FallbackStep(d) == (\E m \in Methods : FallbackLoop(d, m)) \/ FallbackEnd(d)

NextLive == WriterLive \/ DispatchNext(Dispatchers, LiveRequests, ConcOverrides)

\* The scheduler runs every goroutine that can run, so each step inside a
\* call is taken once it stays possible; Unlock hands the lock to the readers
\* blocked in RLock before another writer gets it, so a blocked RLock returns
\* although writers keep coming.  Nothing makes a caller call, nor a handler
\* return.
Fairness ==
    /\ \A w \in Writers :
          /\ WF_vars(LockAcquire(w))
          /\ WF_vars(HandleBody(w))
          /\ WF_vars(HandlerDeregisterBody(w))
    /\ \A d \in Dispatchers :
          /\ WF_vars(ServePrelude(d))
          /\ SF_vars(RLock(d))
          /\ WF_vars(PrimaryLoop(d))
          /\ WF_vars(FallbackStep(d))
          /\ WF_vars(InvokeHandler(d))

\* Two goroutines in ServeHTTP and one in Handle / HandlerDeregister, under
\* fair scheduling.
SpecLive == Init /\ [][NextLive]_vars /\ Fairness

\* ------------------------------------------------------------------- claims

\* hs without the bindings whose pattern string is that of pat.
WithoutPattern(hs, pat) ==
    SelectSeq(hs, LAMBDA b : String(b.pat) # String(pat))

\* The positions of hs whose pattern string is that of pat.
PositionsOf(hs, pat) ==
    { i \in 1..Len(hs) : String(hs[i].pat) = String(pat) }

\* C1: HandlerDeregister(M, p) leaves under M exactly the bindings it had
\* whose pattern string differs from p.String(), in the same order.
C1_DeregisterExact ==
    lastCall.call.op = "HandlerDeregister" =>
        Get(handlers, lastCall.call.meth) =
            WithoutPattern(Get(lastCall.before, lastCall.call.meth),
                           lastCall.call.pat[1])

\* A removal of two bindings, the first and the last of three.
C1_Witness ==
    /\ lastCall.call = DeregOp("GET", PatWild)
    /\ PositionsOf(Get(lastCall.before, "GET"), PatWild) = {1, 3}
    /\ Get(handlers, "GET") = << Get(lastCall.before, "GET")[2] >>

\* C2: HandlerDeregister(M, p) called again right after it returned, or
\* called when M has no binding with that pattern string, leaves the whole
\* table as it was.
C2_DeregisterIdempotent ==
    lastCall.call.op = "HandlerDeregister" =>
        ( ( \/ lastCall.repeat
            \/ PositionsOf(Get(lastCall.before, lastCall.call.meth),
                           lastCall.call.pat[1]) = {} )
          => handlers = lastCall.before )

\* The second of two equal calls has returned, the method keeping a binding.
C2_Witness ==
    /\ lastCall.call.op = "HandlerDeregister"
    /\ lastCall.repeat
    /\ Len(Get(handlers, lastCall.call.meth)) = 2

\* The dispatch is inside one of its two loops.
Scanning(d) == pc[d] \in {"primary", "fallback"}

\* The step of a dispatch that leaves its loops.
ScanEnds(d) == Scanning(d) /\ pc'[d] \in {"invoke", "done"}

\* The components of the request's path, before any stripping.
Comps0(d) == Split(Tail(r[d].Path), "/")

\* The path with components comps matches pat: the verb suffix is stripped
\* iff the last component ends with ":" + pat.Verb(), and Match accepts.
PathMatches(pat, comps) ==
    LET idx == VerbIdx(pat, comps)
    IN  /\ idx # 0
        /\ Match(pat,
                 IF idx > 0 THEN StripComponents(comps, idx) ELSE comps,
                 IF idx > 0 THEN StripVerb(comps, idx) ELSE NoVerb)

\* The methods other than meth with a binding that matches the path.
MatchingOthers(t, meth, comps) ==
    { m \in (DOMAIN t) \ {meth} :
        \E i \in 1..Len(t[m]) : PathMatches(t[m][i].pat, comps) }

\* The last component of the path begins with a colon (line 92 answers
\* NotFound for it whenever a candidate's verb is the rest of the component).
LeadingColon(comps) == HasPrefix(comps[Len(comps)], <<":">>)

\* C3: a request with effective method M whose path matches a binding of M,
\* no binding ordered before it matching too, invokes that binding's handler
\* (stated for the paths whose last component does not begin with a colon).
C3_RegisterLookup ==
    [][ \A d \in Dispatchers :
          (pc[d] = "primary" /\ pc'[d] # "primary"
                /\ ~LeadingColon(Comps0(d))) =>
            LET hs == Get(handlers, r[d].Method)
            IN  \A i \in 1..Len(hs) :
                  ( /\ PathMatches(hs[i].pat, Comps0(d))
                    /\ \A j \in 1..(i - 1) : ~PathMatches(hs[j].pat, Comps0(d)) )
                  => /\ pc'[d] = "invoke"
                     /\ sel'[d] = << [meth |-> r[d].Method, b |-> hs[i]] >>
      ]_vars

\* C4: a request whose path matches a binding of another method only is
\* served by a matching handler when path-length fallback applies and the
\* form parses, and is MethodNotAllowed when fallback does not apply
\* (stated for the paths whose last component does not begin with a colon).
C4_FallbackCorrect ==
    [][ \A d \in Dispatchers :
          ( /\ ScanEnds(d)
            /\ ~LeadingColon(Comps0(d))
            /\ MatchingOthers(handlers, r[d].Method, Comps0(d)) # {}
            /\ \A i \in 1..Len(Get(handlers, r[d].Method)) :
                  ~PathMatches(Get(handlers, r[d].Method)[i].pat, Comps0(d)) )
          => IF isPathLengthFallback(r[d])
             THEN ParseFormOk(r[d]) =>
                    /\ pc'[d] = "invoke"
                    /\ sel'[d] # << >>
                    /\ sel'[d][1].meth
                         \in MatchingOthers(handlers, r[d].Method, Comps0(d))
                    /\ PathMatches(sel'[d][1].b.pat, Comps0(d))
             ELSE /\ pc'[d] = "done"
                  /\ outcome'[d] = "MethodNotAllowed"
      ]_vars

\* C5: a dispatch that is about to run or runs a handler holds no read lock,
\* and a writer waiting in Lock() then waits for no one but other readers.
C5_NoLockDuringHandler ==
    \A d \in Dispatchers :
        pc[d] \in {"invoke", "handler"} =>
            /\ d \notin muReaders
            /\ \A w \in Writers :
                  (wpc[w] = "lock" /\ muReaders \ {d} = {})
                      => CanLockAcquire(w)

\* A writer holds the exclusive lock while a handler runs.
C5_Witness ==
    \E d \in Dispatchers, w \in Writers :
        pc[d] = "handler" /\ wpc[w] = "held" /\ muHeld

\* C6 as stated: no dispatch holds the read lock while it matches candidates.
C6_NoLockDuringMatch ==
    \A d \in Dispatchers : Scanning(d) => d \notin muReaders

\* C6 amended: a dispatch holds the read lock exactly while it is in its
\* primary or fallback loop, and no writer holds the lock then.
C6_LockHeldAcrossScan ==
    \A d \in Dispatchers :
        /\ (d \in muReaders) <=> Scanning(d)
        /\ Scanning(d) => ~muHeld

\* A writer waits in Lock() for a dispatch that is in its fallback loop.
C6_Witness ==
    \E d \in Dispatchers, w \in Writers :
        pc[d] = "fallback" /\ d \in muReaders /\ wpc[w] = "lock"

\* HandlerDeregister holds the exclusive lock for the binding b of meth.
Removing(w, meth, b) ==
    /\ wpc[w] = "held"
    /\ wop[w].op = "HandlerDeregister"
    /\ wop[w].meth = meth
    /\ String(wop[w].pat[1]) = String(b.pat)

\* C7 as stated: no dispatch enters the handler of a binding while a
\* HandlerDeregister that removes the binding holds the exclusive lock.
C7_NoInvokeMidRemoval ==
    [][ \A d \in Dispatchers :
          (pc[d] = "invoke" /\ pc'[d] = "handler") =>
            ~ \E w \in Writers : Removing(w, sel[d][1].meth, sel[d][1].b)
      ]_vars

\* C7 amended: no dispatch selects a binding while a writer holds the
\* exclusive lock, and the binding it selects is in the table at that step.
C7_NoSelectMidRemoval ==
    [][ \A d \in Dispatchers :
          (sel'[d] # sel[d] /\ sel'[d] # << >>) =>
            /\ ~muHeld
            /\ \E i \in 1..Len(Get(handlers, sel'[d][1].meth)) :
                  Get(handlers, sel'[d][1].meth)[i] = sel'[d][1].b
      ]_vars

\* A dispatch has selected a binding and not yet entered its handler while
\* the HandlerDeregister of that binding holds the exclusive lock.
C7_Witness ==
    \E d \in Dispatchers, w \in Writers :
        /\ pc[d] = "invoke"
        /\ Removing(w, sel[d][1].meth, sel[d][1].b)

\* (meth, pat) is registered: a Handle of it returned, or is in progress,
\* after the last HandlerDeregister of it returned.
Registered(meth, pat) ==
    \/ regs[RegKey(meth, pat)] > 0
    \/ \E w \in Writers :
          /\ wop[w].op = "Handle"
          /\ wop[w].meth = meth
          /\ String(wop[w].pat[1]) = String(pat)

\* C8: a dispatch selects only registered bindings (none whose
\* HandlerDeregister has returned with no Handle since), and a request whose
\* path matches no registered pattern of any method ends NotFound.
C8_MutationsVisible ==
    [][ \A d \in Dispatchers :
          /\ (sel'[d] # sel[d] /\ sel'[d] # << >>)
                => Registered(sel'[d][1].meth, sel'[d][1].b.pat)
          /\ ( /\ ScanEnds(d)
               /\ \A m \in Methods, p \in Patterns :
                     Registered(m, p) => ~PathMatches(p, Comps0(d)) )
                => (pc'[d] = "done" /\ outcome'[d] = "NotFound")
      ]_vars

\* A GET of "/a" ends NotFound on a table whose GET bindings were removed.
C8_Witness ==
    \E d \in Dispatchers :
        /\ pc[d] = "done"
        /\ outcome[d] = "NotFound"
        /\ r[d].Method = "GET"
        /\ r[d].Path = PathA
        /\ "GET" \in DOMAIN handlers
        /\ handlers["GET"] = << >>
        /\ \A w \in Writers : wpc[w] = "idle"

\* What lines 125-137 make of a fallback match of binding b of method m.
FallbackOutcome(req, m, b) ==
    IF isPathLengthFallback(req)
    THEN IF ParseFormOk(req)
         THEN [kind |-> "handler", sel |-> << [meth |-> m, b |-> b] >>]
         ELSE [kind |-> "BadRequest", sel |-> << [meth |-> m, b |-> b] >>]
    ELSE [kind |-> "MethodNotAllowed", sel |-> << [meth |-> m, b |-> b] >>]

\* The results ServeHTTP can give for req (prelude done) run alone on table
\* t; the range over the map may visit the other methods in any order.
SequentialOutcomes(t, req) ==
    LET comps0 == Split(Tail(req.Path), "/")
        p == PrimaryScan(Get(t, req.Method), 1, comps0, NoVerb)
        hits == { m \in (DOMAIN t) \ {req.Method} :
                    FallbackScan(t[m], 1, p.comps, p.verb) # << >> }
    IN  CASE p.kind = "notfound" -> { [kind |-> "NotFound", sel |-> << >>] }
          [] p.kind = "match" ->
               { [kind |-> "handler",
                  sel |-> << [meth |-> req.Method, b |-> p.b[1]] >>] }
          [] OTHER ->
               IF hits = {} THEN { [kind |-> "NotFound", sel |-> << >>] }
               ELSE { FallbackOutcome(req, m,
                          FallbackScan(t[m], 1, p.comps, p.verb)[1]) :
                        m \in hits }

\* The table is the one the dispatch met at RLock.
ScanStable(d) == Scanning(d) => snap[d] = << handlers >>

\* C9: the table does not change while a dispatch is in its loops, and what
\* the dispatch decides is what a dispatch run alone on the table it met at
\* RLock decides.
C9_OneTablePerDispatch ==
    [][ \A d \in Dispatchers :
          /\ ScanStable(d)
          /\ ScanStable(d)'
          /\ ScanEnds(d) =>
                [kind |-> IF pc'[d] = "invoke" THEN "handler" ELSE outcome'[d],
                 sel |-> sel'[d]]
                    \in SequentialOutcomes(snap[d][1], r[d])
      ]_vars

\* A dispatch is in its fallback loop while a writer waits with a Handle for
\* the method the loop has still to visit.
C9_Witness ==
    \E d \in Dispatchers, w \in Writers :
        /\ pc[d] = "fallback"
        /\ wpc[w] = "lock"
        /\ wop[w].op = "Handle"
        /\ wop[w].meth # r[d].Method
        /\ PathMatches(wop[w].pat[1], Comps0(d))

\* C10 as stated: no method has two bindings with the same pattern string.
C10_NoDuplicates ==
    \A m \in DOMAIN handlers, p \in Patterns :
        Cardinality(PositionsOf(handlers[m], p)) <= 1

\* C10 amended: a method has as many bindings with a pattern string as Handle
\* was called for it since the last HandlerDeregister of it.
C10_OneBindingPerHandle ==
    \A m \in Methods, p \in Patterns :
        Cardinality(PositionsOf(Get(handlers, m), p)) = regs[RegKey(m, p)]

\* Handle was called twice for GET and "/*": two bindings, the later first.
C10_Witness ==
    /\ regs[RegKey("GET", PatWild)] = 2
    /\ Len(Get(handlers, "GET")) = 2
    /\ PositionsOf(Get(handlers, "GET"), PatWild) = {1, 2}

\* Some binding of some method matches the path.
AnyMatches(t, comps) ==
    \E m \in DOMAIN t : \E i \in 1..Len(t[m]) : PathMatches(t[m][i].pat, comps)

\* C11: a request is NotFound only when no binding of any method matches its
\* path, and a request whose path matches some binding of its effective
\* method has a handler selected, whatever is ordered before that binding.
C11_NotFoundOnlyUnmatched ==
    [][ \A d \in Dispatchers :
          ScanEnds(d) =>
            /\ (pc'[d] = "done" /\ outcome'[d] = "NotFound")
                  => ~AnyMatches(handlers, Comps0(d))
            /\ (\E i \in 1..Len(Get(handlers, r[d].Method)) :
                    PathMatches(Get(handlers, r[d].Method)[i].pat, Comps0(d)))
                  => pc'[d] = "invoke"
      ]_vars

\* Lines 85-102: the (components, verb) handed to Match at line 102 for each
\* candidate the primary loop reaches, in order, with the candidate's pattern.
RECURSIVE PrimaryMatchArgs(_, _, _, _)
PrimaryMatchArgs(hs, i, comps, vb) ==
    IF i > Len(hs) THEN << >>
    ELSE LET idx == VerbIdx(hs[i].pat, comps)
             comps2 == IF idx > 0 THEN StripComponents(comps, idx) ELSE comps
             vb2 == IF idx > 0 THEN StripVerb(comps, idx) ELSE vb
         IN  IF idx = 0 THEN << >>
             ELSE << [pat |-> hs[i].pat, comps |-> comps2, verb |-> vb2] >>
                  \o (IF Match(hs[i].pat, comps2, vb2) THEN << >>
                      ELSE PrimaryMatchArgs(hs, i + 1, comps2, vb2))

\* The (components, verb) derived from the request's own components and the
\* verb of pat alone.
OwnArgs(pat, comps0) ==
    LET idx == VerbIdx(pat, comps0)
    IN  [pat |-> pat,
         comps |-> IF idx > 0 THEN StripComponents(comps0, idx) ELSE comps0,
         verb |-> IF idx > 0 THEN StripVerb(comps0, idx) ELSE NoVerb]

\* The candidates of hs that the fallback loop hands to Match (line 118): those
\* up to its first match.
FallbackCandidates(hs, comps, vb) ==
    { i \in 1..Len(hs) : \A j \in 1..(i - 1) : ~Match(hs[j].pat, comps, vb) }

\* C12: every candidate of the primary scan and of the fallback scan is
\* matched against components and a verb derived from the request's path and
\* the candidate's own verb only.
C12_PerCandidateStrip ==
    [][ \A d \in Dispatchers :
          /\ (pc[d] = "primary" /\ pc'[d] # "primary") =>
                LET args == PrimaryMatchArgs(Get(handlers, r[d].Method), 1,
                                             components[d], verb[d])
                IN  \A k \in 1..Len(args) :
                        args[k] = OwnArgs(args[k].pat, Comps0(d))
          /\ pc[d] = "fallback" =>
                \A m \in OtherMethods(d) :
                    \A i \in FallbackCandidates(handlers[m], components[d],
                                                verb[d]) :
                        [pat |-> handlers[m][i].pat, comps |-> components[d],
                         verb |-> verb[d]]
                            = OwnArgs(handlers[m][i].pat, Comps0(d))
      ]_vars

\* The verb has a colon in it.
ContainsColon(v) == \E i \in 1..Len(v) : v[i] = ":"

\* C13: a candidate whose verb contains a colon, on a path whose last
\* component is <name> ":" <verb>, is matched in the primary loop against the
\* last component <name> and the whole verb.
C13_ColonVerbSplit ==
    [][ \A d \in Dispatchers :
          (pc[d] = "primary" /\ pc'[d] # "primary") =>
            LET args == PrimaryMatchArgs(Get(handlers, r[d].Method), 1,
                                         components[d], verb[d])
                last == Comps0(d)[Len(Comps0(d))]
            IN  \A k \in 1..Len(args) :
                  LET v == Verb(args[k].pat)
                  IN  ( /\ ContainsColon(v)
                        /\ Len(last) > Len(v) + 1
                        /\ HasSuffix(last, <<":">> \o v) )
                      => /\ args[k].comps[Len(args[k].comps)]
                              = SubSeq(last, 1, Len(last) - Len(v) - 1)
                         /\ args[k].verb = v
      ]_vars

\* C17: the Handle of mux_dynamic_test.go leaves under M the bindings M had
\* whose pattern string differs from p.String(), in their order, followed by
\* (p, h); it leaves the other methods as they were, and no method ever has
\* two bindings with one pattern string.
C17_ReplaceInPlace ==
    /\ lastCall.call.op = "HandleVariant" =>
          LET m == lastCall.call.meth
              p == lastCall.call.pat[1]
          IN  /\ Get(handlers, m) =
                    WithoutPattern(Get(lastCall.before, m), p)
                        \o << [pat |-> p, h |-> lastCall.call.h] >>
              /\ DOMAIN handlers = DOMAIN lastCall.before \cup {m}
              /\ \A x \in DOMAIN lastCall.before :
                    x # m => handlers[x] = lastCall.before[x]
    /\ \A m \in DOMAIN handlers, p \in Patterns :
          Cardinality(PositionsOf(handlers[m], p)) <= 1

\* The middle one of three bindings was registered again and moved to the end
\* with its new handler function.
C17_Witness ==
    /\ lastCall.call = HandleVariantOp("GET", PatBV, "h2")
    /\ Len(Get(lastCall.before, "GET")) = 3
    /\ Get(lastCall.before, "GET")[2] = [pat |-> PatBV, h |-> "h1"]
    /\ Get(handlers, "GET") =
          << Get(lastCall.before, "GET")[1], Get(lastCall.before, "GET")[3],
             [pat |-> PatBV, h |-> "h2"] >>

\* What a call of ServeHTTP can produce.
Outcomes == {"handler", "BadRequest", "NotFound", "MethodNotAllowed"}

\* The step by which ServeHTTP returns.
Returns(d) == pc[d] = "done" /\ pc'[d] = "idle"

\* C14: a call of ServeHTTP produces one outcome, a handler invocation or one
\* error response, never replaced by another; a handler is invoked only for
\* the binding matched, and once a binding is matched the scan is over and no
\* other binding is matched.
C14_ExactlyOneOutcome ==
    [][ \A d \in Dispatchers :
          /\ (outcome[d] # None /\ ~Returns(d)) => outcome'[d] = outcome[d]
          /\ (pc[d] # "done" /\ pc'[d] = "done") => outcome'[d] \in Outcomes
          /\ (outcome[d] # "handler" /\ outcome'[d] = "handler")
                => (pc[d] = "invoke" /\ sel[d] # << >> /\ outcome[d] = None)
          /\ (sel'[d] # sel[d] /\ sel'[d] # << >>)
                => (sel[d] = << >> /\ pc'[d] \in {"invoke", "done"})
          /\ (sel[d] # << >> /\ ~Returns(d))
                => (sel'[d] = sel[d] /\ ~Scanning(d)')
      ]_vars

\* A call has ended with the error response alone: the fallback loop matched
\* a binding and the form did not parse.
C14_Witness ==
    \E d \in Dispatchers :
        /\ pc[d] = "done"
        /\ outcome[d] = "BadRequest"
        /\ sel[d] # << >>
        /\ sel[d][1].meth # r[d].Method

\* The header values in use, in upper case.
UpperCased(hdr) == IF hdr = "get" THEN "GET" ELSE "POST"

\* C15: the lookup uses the upper-cased override header iff the header is not
\* empty and path-length fallback applies, and the request's own method
\* otherwise; a substitution whose form does not parse ends in BadRequest
\* with no lookup, no lock and no binding selected; the primary loop selects
\* bindings of that method only.
C15_MethodOverride ==
    [][ \A d \in Dispatchers :
          /\ (pc[d] = "start" /\ pc'[d] # "start"
                /\ HasPrefix(r[d].Path, <<"/">>)) =>
                LET subst == override[d] # "" /\ isPathLengthFallback(r[d])
                IN  /\ r'[d].Method = IF subst THEN UpperCased(override[d])
                                      ELSE r[d].Method
                    /\ IF subst /\ ~ParseFormOk(r[d])
                       THEN /\ pc'[d] = "done"
                            /\ outcome'[d] = "BadRequest"
                            /\ sel'[d] = << >>
                            /\ d \notin muReaders'
                       ELSE pc'[d] = "rlock"
          /\ pc[d] \in {"rlock", "primary", "fallback"} => r'[d] = r[d]
          /\ (pc[d] = "primary" /\ sel'[d] # << >>) =>
                /\ sel'[d][1].meth = r[d].Method
                /\ \E i \in 1..Len(Get(handlers, r[d].Method)) :
                      Get(handlers, r[d].Method)[i] = sel'[d][1].b
      ]_vars

\* A call whose method was substituted ended in BadRequest before any lookup:
\* the path is well-formed and no binding was matched.
C15_Witness ==
    \E d \in Dispatchers :
        /\ pc[d] = "done"
        /\ outcome[d] = "BadRequest"
        /\ HasPrefix(r[d].Path, <<"/">>)
        /\ sel[d] = << >>
        /\ r[d].Method = "POST"
        /\ TotalLen(handlers) > 0

\* The table t after (pat, h) is put in front of the sequence of meth.
Prepended(t, meth, pat, h) ==
    [x \in (DOMAIN t) \cup {meth} |->
        IF x = meth THEN << [pat |-> pat, h |-> h] >> \o Get(t, meth)
        ELSE t[x]]

\* C16: Handle(M, p, h) puts (p, h) in front of M's sequence and changes
\* nothing else; a request whose path matches the first binding of its method
\* has that binding selected; a binding is never selected from behind a
\* binding of the same pattern string; HandlerDeregister(M, p) removes every
\* binding of p that Handle put there.
C16_PrependPolicy ==
    [][ /\ regs' # regs =>
              \A m \in Methods, p \in Patterns :
                 /\ regs'[RegKey(m, p)] = regs[RegKey(m, p)] + 1 =>
                       \E h \in HandlerFuncs :
                          handlers' = Prepended(handlers, m, p, h)
                 /\ (regs[RegKey(m, p)] > 0 /\ regs'[RegKey(m, p)] = 0) =>
                       PositionsOf(Get(handlers', m), p) = {}
        /\ \A d \in Dispatchers :
              /\ (pc[d] = "primary" /\ pc'[d] # "primary") =>
                    LET hs == Get(handlers, r[d].Method)
                    IN  (hs # << >> /\ PathMatches(hs[1].pat, Comps0(d))) =>
                            /\ pc'[d] = "invoke"
                            /\ sel'[d] = << [meth |-> r[d].Method, b |-> hs[1]] >>
              /\ (sel'[d] # sel[d] /\ sel'[d] # << >>) =>
                    LET hs == Get(handlers, sel'[d][1].meth)
                    IN  \E i \in 1..Len(hs) :
                           /\ hs[i] = sel'[d][1].b
                           /\ \A j \in 1..(i - 1) :
                                 String(hs[j].pat) # String(hs[i].pat)
      ]_vars

\* Handle(GET, /*, h1) then Handle(GET, /*, h2): a GET request has h2 selected,
\* h1 behind it.
C16_Witness ==
    \E d \in Dispatchers :
        /\ pc[d] = "invoke"
        /\ Get(handlers, "GET") =
              << [pat |-> PatWild, h |-> "h2"], [pat |-> PatWild, h |-> "h1"] >>
        /\ sel[d] = << [meth |-> "GET", b |-> [pat |-> PatWild, h |-> "h2"]] >>

\* C18: the method keys of the table never go away; a key appears only when
\* a Handle for that method stores its binding; HandlerDeregister neither
\* removes nor creates a key; nothing but the body of Handle or
\* HandlerDeregister changes the table.
C18_KeysNeverShrink ==
    [][ /\ DOMAIN handlers \subseteq DOMAIN handlers'
        /\ \A m \in (DOMAIN handlers') \ (DOMAIN handlers) :
              \E w \in Writers :
                 /\ wpc[w] = "held" /\ wpc'[w] = "idle"
                 /\ wop[w].op = "Handle"
                 /\ wop[w].meth = m
        /\ \A w \in Writers :
              (wpc[w] = "held" /\ wpc'[w] = "idle"
                    /\ wop[w].op = "HandlerDeregister")
                 => DOMAIN handlers' = DOMAIN handlers
        /\ handlers' # handlers =>
              \E w \in Writers : wpc[w] = "held" /\ wpc'[w] = "idle"
      ]_vars

\* Both methods have their key and an empty sequence: every binding was
\* removed again.
C18_Witness ==
    /\ DOMAIN handlers = Methods
    /\ \A m \in Methods : handlers[m] = << >>
    /\ \A w \in Writers : wpc[w] = "idle"

\* C19: a dispatch takes the read lock at line 75 only, not holding it, and
\* gives it up, holding it, by the step that leaves the loops and by no other;
\* it holds none outside the loops; Handle and HandlerDeregister return with
\* the exclusive lock released, which only a writer inside its call holds.
C19_LockBalance ==
    [][ /\ \A d \in Dispatchers :
              /\ (d \notin muReaders /\ d \in muReaders')
                    <=> (pc[d] = "rlock" /\ pc'[d] = "primary")
              /\ (d \in muReaders /\ d \notin muReaders') <=> ScanEnds(d)
              /\ ~Scanning(d)' => d \notin muReaders'
        /\ \A w \in Writers :
              /\ (wpc[w] = "held" /\ wpc'[w] = "idle") =>
                    (muHeld /\ muWriter = w /\ ~muHeld' /\ muWriter' = None)
              /\ wpc'[w] = "idle" => muWriter' # w
        /\ muHeld' => \E w \in Writers : wpc'[w] = "held" /\ muWriter' = w
      ]_vars

\* The call has answered NotFound from inside the primary loop (line 95, the
\* verb suffix at index 0) and holds no lock; a writer took the lock after it.
C19_Witness ==
    \E d \in Dispatchers, w \in Writers :
        /\ pc[d] = "done"
        /\ outcome[d] = "NotFound"
        /\ r[d].Path = PathColonV
        /\ \E i \in 1..Len(Get(handlers, r[d].Method)) :
              VerbIdx(Get(handlers, r[d].Method)[i].pat, Comps0(d)) = 0
        /\ muReaders = {}
        /\ wpc[w] = "held"

\* C20: under fair scheduling every call of Handle or HandlerDeregister
\* returns, and every call of ServeHTTP comes to its handler or to its error
\* response, whether or not the handlers of other calls return.
C20_EventualCompletion ==
    /\ \A w \in Writers : (wpc[w] # "idle") ~> (wpc[w] = "idle")
    /\ \A d \in Dispatchers :
          (pc[d] \in {"start", "rlock", "primary", "fallback", "invoke"})
              ~> (pc[d] \in {"handler", "done"})

\* While the handler of one call runs, a HandlerDeregister has emptied the
\* method's sequence and returned, and another call has ended NotFound.
C20_Witness ==
    \E d \in Dispatchers, e \in Dispatchers :
        /\ d # e
        /\ pc[d] = "handler"
        /\ pc[e] = "done"
        /\ outcome[e] = "NotFound"
        /\ r[e].Method = r[d].Method
        /\ Get(handlers, r[d].Method) = << >>
        /\ \A w \in Writers : wpc[w] = "idle"

====
